---- MODULE Spec2Model ----
(***************************************************************************)
(* Model of the Oracle -> Postgres reconciliation run: recon_run.main and  *)
(* the recon_lib helpers it calls (row counts, chunked checksums, the      *)
(* chunk comparator).                                                      *)
(*                                                                         *)
(* Names (schemas, tables) are sequences of one-character strings so that  *)
(* upper(), lower() and string concatenation are computed, not assumed.    *)
(* A DataFrame is a sequence of records, one record per row.               *)
(***************************************************************************)
EXTENDS Integers, Sequences, FiniteSets

VARIABLES
    tables,          \* main: tables, the list fetch_oracle_tables returned
    pg_schema,       \* main: cfg.postgres["schema"]
    pc,              \* position of main
    idx,             \* 1-based index of the table the for loop is at
    ora_c,           \* main: ora_c of the current table
    counts_rows,     \* main: counts_rows
    chunks_rows,     \* main: chunks_rows
    mismatches,      \* main: mismatches, a list of DataFrames
    missing_tables,  \* main: missing_tables
    pgState,         \* transaction state of the psycopg2 connection pg
    files,           \* the CSV files written so far: file name -> rows
    log,             \* the per-table outcome lines main printed
    stmts,           \* the statements main sent to the two connections
    fnIn,            \* input of the pure function under study
    fnOut            \* its result

vars == <<tables, pg_schema, pc, idx, ora_c, counts_rows, chunks_rows,
          mismatches, missing_tables, pgState, files, log, stmts, fnIn, fnOut>>

orchVars == <<tables, pg_schema, idx, ora_c, counts_rows, chunks_rows,
              mismatches, missing_tables, pgState, files, log, stmts>>

-----------------------------------------------------------------------------
(* Bounds of the model *)

MaxTables == 2      \* length of the table list
MaxRows == 1        \* rows of a table when it is checksummed
DefaultChunks == 2  \* cfg.default_chunks of the modelled run
MaxKey == 10        \* largest primary key value (ordering study)
MaxChunks == 3      \* largest chunk count (ordering study)
CmpChunks == 2      \* largest chunk id (comparator study)
MaxSum == 2         \* largest CHUNK_SUM (comparator study)
MaxCnt == 2         \* largest ROWS_IN_CHUNK (comparator study)

(* Program constants *)

Threshold == 50000   \* the size threshold of the chunk checksum
Half == 65536        \* 2^16: a 32-bit word is a pair <<high half, low half>>

-----------------------------------------------------------------------------
(* Strings *)

UpperChars == <<"A", "B", "C", "D", "E", "F", "G", "H", "I", "J", "K", "L", "M",
                "N", "O", "P", "Q", "R", "S", "T", "U", "V", "W", "X", "Y", "Z">>
LowerChars == <<"a", "b", "c", "d", "e", "f", "g", "h", "i", "j", "k", "l", "m",
                "n", "o", "p", "q", "r", "s", "t", "u", "v", "w", "x", "y", "z">>

LowerChar(c) ==
    IF \E i \in 1..26 : UpperChars[i] = c
    THEN LowerChars[CHOOSE i \in 1..26 : UpperChars[i] = c]
    ELSE c

UpperChar(c) ==
    IF \E i \in 1..26 : LowerChars[i] = c
    THEN UpperChars[CHOOSE i \in 1..26 : LowerChars[i] = c]
    ELSE c

Lower(s) == [i \in 1..Len(s) |-> LowerChar(s[i])]
Upper(s) == [i \in 1..Len(s) |-> UpperChar(s[i])]

DigitChars == <<"0", "1", "2", "3", "4", "5", "6", "7", "8", "9">>

RECURSIVE Str(_)
(* str(n) / n::text of a non-negative integer: its decimal digits *)
Str(n) == IF n < 10 THEN <<DigitChars[n + 1]>>
          ELSE Str(n \div 10) \o <<DigitChars[(n % 10) + 1]>>

DigitVal(c) == CHOOSE d \in 0..9 : DigitChars[d + 1] = c

RECURSIVE TextLess(_, _)
(* a < b in text order, for digit strings *)
TextLess(a, b) ==
    IF a = <<>> THEN b # <<>>
    ELSE IF b = <<>> THEN FALSE
    ELSE IF Head(a) # Head(b) THEN DigitVal(Head(a)) < DigitVal(Head(b))
    ELSE TextLess(Tail(a), Tail(b))

-----------------------------------------------------------------------------
(* Small helpers on sets and sequences *)

RECURSIVE SumOver(_, _)
SumOver(S, f) == IF S = {} THEN 0
                 ELSE LET x == CHOOSE y \in S : TRUE
                      IN f[x] + SumOver(S \ {x}, f)

RECURSIVE SortedSeq(_)
SortedSeq(S) == IF S = {} THEN <<>>
                ELSE LET m == CHOOSE x \in S : \A y \in S : x <= y
                     IN <<m>> \o SortedSeq(S \ {m})

RECURSIVE Flatten(_)
Flatten(ss) == IF ss = <<>> THEN <<>> ELSE Head(ss) \o Flatten(Tail(ss))

Range(s) == {s[i] : i \in 1..Len(s)}

-----------------------------------------------------------------------------
(* recon_lib: table discovery *)

TableSpec(ora_schema_, ora_table_, pg_schema_, pg_table_, pk_, chunks_) ==
    [ora_schema |-> ora_schema_, ora_table |-> ora_table_,
     pg_schema |-> pg_schema_, pg_table |-> pg_table_,
     pk |-> pk_, chunks |-> chunks_]

(* The rows the catalog query returns for the schema.  The join with
   all_cons_columns gives one row per primary-key column, so a table with a
   composite key comes several times: keyCols[i] is the number of key
   columns of table Ti. *)
PkColumns == << <<"I", "D">>, <<"V", "E", "R">> >>

Catalog(schema, keyCols) ==
    Flatten([i \in 1..Len(keyCols) |->
        [j \in 1..keyCols[i] |->
            [OWNER |-> Upper(schema), TABLE_NAME |-> <<"T">> \o Str(i),
             PK |-> PkColumns[j]]]])

(* the schemas of the modelled runs: at most MaxTables catalog rows *)
KeyColumnLists ==
    UNION {{kc \in [1..n -> 1..Len(PkColumns)] : SumOver(1..n, kc) <= MaxTables} :
           n \in 0..MaxTables}

fetch_oracle_tables(catalog, default_chunks) ==
    [i \in 1..Len(catalog) |->
        TableSpec(catalog[i].OWNER, catalog[i].TABLE_NAME,
                  Lower(catalog[i].OWNER), Lower(catalog[i].TABLE_NAME),
                  catalog[i].PK, default_chunks)]

-----------------------------------------------------------------------------
(* The psycopg2 connection: a failed statement aborts the open transaction *)
(* and every later statement fails until rollback(); a connection lost     *)
(* while a statement is sent is closed for good, whatever the transaction  *)
(* state, and neither cursor() nor rollback() works on it.  rollback()     *)
(* sends ROLLBACK only when a transaction is open or aborted, and can      *)
(* itself find the connection lost then.                                   *)

PgStates == {"idle", "intrans", "aborted", "closed"}
PgFaults == {"none", "sql", "conn"}
RollbackFaults == {"none", "conn"}

pg_query_df(state, fault) ==
    IF state = "closed" THEN [ok |-> FALSE, state |-> "closed", err |-> "connection already closed"]
    ELSE IF fault = "conn" THEN [ok |-> FALSE, state |-> "closed", err |-> "pg connection lost"]
    ELSE IF state = "aborted" THEN [ok |-> FALSE, state |-> "aborted", err |-> "current transaction is aborted"]
    ELSE IF fault = "sql" THEN [ok |-> FALSE, state |-> "aborted", err |-> "pg statement failed"]
    ELSE [ok |-> TRUE, state |-> "intrans", err |-> ""]

(* the statement pg_query_df passes to cur.execute: none when conn.cursor()
   already raised on a closed connection *)
PgSent(state, what) == IF state = "closed" THEN <<>> ELSE <<what>>

pg_rollback(state, fault) ==
    IF state = "closed" THEN [ok |-> FALSE, state |-> "closed"]
    ELSE IF state # "idle" /\ fault = "conn" THEN [ok |-> FALSE, state |-> "closed"]
    ELSE [ok |-> TRUE, state |-> "idle"]

-----------------------------------------------------------------------------
(* recon_lib: chunk membership *)

(* NTILE(chunks) of the row at 1-based position rank among nrows ordered
   rows: the first nrows % chunks buckets hold one row more. *)
Ntile(rank, nrows, chunks) ==
    LET q == nrows \div chunks
        m == nrows % chunks
    IN IF rank <= m * (q + 1)
       THEN ((rank - 1) \div (q + 1)) + 1
       ELSE m + ((rank - m * (q + 1) - 1) \div q) + 1

(* Oracle: NTILE(chunks) OVER (ORDER BY pk), the key's native order *)
OraChunkOf(k, keys, chunks) ==
    Ntile(Cardinality({j \in keys : j <= k}), Cardinality(keys), chunks)

(* Postgres: ntile(chunks) OVER (ORDER BY "pk"::text), text order *)
PgChunkOf(k, keys, chunks) ==
    Ntile(Cardinality({j \in keys : j = k \/ TextLess(Str(j), Str(k))}),
          Cardinality(keys), chunks)

-----------------------------------------------------------------------------
(* recon_lib: chunked checksums.  rows maps each primary key of the table  *)
(* to the 32-bit hash the engine computes for that row: for Oracle the     *)
(* number ORA_HASH returns, for Postgres the two halves of the md5 prefix. *)

(* ('x'||substr(row_hash,1,8))::bit(32)::int : the first 8 hex digits of the
   md5, given as <<high 16 bits, low 16 bits>>, read as a signed 32-bit
   integer (two's complement). *)
ToInt32(h) == IF h[1] >= Half \div 2 THEN (h[1] - Half) * Half + h[2]
              ELSE h[1] * Half + h[2]

ChunkRow(side, schema, table, id, sum, cnt) ==
    [SIDE |-> side, SCHEMA |-> schema, TABLE_NAME |-> table, CHUNK_ID |-> id,
     CHUNK_SUM |-> sum, ROWS_IN_CHUNK |-> cnt]

ora_chunk_sums(schema, table, chunks, rows) ==
    LET keys == DOMAIN rows
        ids == SortedSeq({OraChunkOf(k, keys, chunks) : k \in keys})
    IN [n \in 1..Len(ids) |->
          LET members == {k \in keys : OraChunkOf(k, keys, chunks) = ids[n]}
          IN ChunkRow("ORA", schema, table, ids[n],
                      SumOver(members, rows), Cardinality(members))]

pg_chunk_sums(schema, table, chunks, rows) ==
    LET keys == DOMAIN rows
        ids == SortedSeq({PgChunkOf(k, keys, chunks) : k \in keys})
        h == [k \in keys |-> ToInt32(rows[k])]
    IN [n \in 1..Len(ids) |->
          LET members == {k \in keys : PgChunkOf(k, keys, chunks) = ids[n]}
          IN ChunkRow("PG", schema, schema \o <<".">> \o table, ids[n],
                      SumOver(members, h), Cardinality(members))]

(* DataFrame.to_records(index=False).tolist() *)
ToTuples(df) ==
    [i \in 1..Len(df) |-> <<df[i].SIDE, df[i].SCHEMA, df[i].TABLE_NAME,
                            df[i].CHUNK_ID, df[i].CHUNK_SUM, df[i].ROWS_IN_CHUNK>>]

-----------------------------------------------------------------------------
(* recon_lib: the comparator *)

JoinRow(o, p) ==
    [SCHEMA |-> o.SCHEMA, TABLE_NAME |-> o.TABLE_NAME, CHUNK_ID |-> o.CHUNK_ID,
     CHUNK_SUM_ora |-> o.CHUNK_SUM, CHUNK_SUM_pg |-> p.CHUNK_SUM,
     ROWS_IN_CHUNK_ora |-> o.ROWS_IN_CHUNK, ROWS_IN_CHUNK_pg |-> p.ROWS_IN_CHUNK]

SameKey(o, p) ==
    /\ o.SCHEMA = p.SCHEMA
    /\ o.TABLE_NAME = p.TABLE_NAME
    /\ o.CHUNK_ID = p.CHUNK_ID

RECURSIVE Filter(_, _)
Filter(s, keep) ==
    IF s = <<>> THEN <<>>
    ELSE (IF keep[1] THEN <<Head(s)>> ELSE <<>>)
         \o Filter(Tail(s), Tail(keep))

(* ora_df.merge(pg_df, on=[SCHEMA, TABLE_NAME, CHUNK_ID]): an inner join,
   in the order of the left frame. *)
Merge(ora_df, pg_df) ==
    Flatten([i \in 1..Len(ora_df) |->
        LET hit == Filter(pg_df, [n \in 1..Len(pg_df) |-> SameKey(ora_df[i], pg_df[n])])
        IN [n \in 1..Len(hit) |-> JoinRow(ora_df[i], hit[n])]])

compare_chunks(ora_df, pg_df) ==
    LET j == Merge(ora_df, pg_df)
    IN Filter(j, [n \in 1..Len(j) |-> j[n].CHUNK_SUM_ora # j[n].CHUNK_SUM_pg])

-----------------------------------------------------------------------------
(* recon_run.main: inputs of the modelled runs *)

OraSchemaCfg == <<"h", "r">>                       \* cfg.oracle["schema"]
PgSchemas == {<<"h", "r">>}                        \* cfg.postgres["schema"]
CountVals == {Threshold, Threshold + 1}            \* results of COUNT(*)
OraRowHashes == {1}                                \* ORA_HASH of a row
PgRowHashes == {<<0, 1>>, <<Half - 1, Half - 1>>}   \* md5 prefix of a row: 00000001, ffffffff

(* The rows of a table as both engines see them: keys 1..n, the same on
   both sides, with each engine's 32-bit hash of each row. *)
TableData ==
    UNION {[ora : [1..n -> OraRowHashes], pg : [1..n -> PgRowHashes]] : n \in 0..MaxRows}

OraFaults == {"none", "err"}
CatResults == {"ok", "query_error", "no_columns"}

(* What can go wrong in one checksum step, as <<result of ora_build_cat_expr,
   fault of the Oracle checksum, fault of the Postgres column list, fault of
   the Postgres checksum>>.  The first failure ends the step, so one faulty
   call per step covers every outcome. *)
ChecksumFaults ==
    {f \in CatResults \X OraFaults \X PgFaults \X PgFaults :
        Cardinality({n \in 1..4 : f[n] \notin {"ok", "none"}}) <= 1}

(* recon_run.main: the loop *)

LoopAt(i, n) == IF i <= n THEN [pc |-> "count", idx |-> i]
                ELSE [pc |-> "report", idx |-> i]

(* a count failure that ends the loop instead of moving to the next table *)
AfterCountFailure_break(i, n) == [pc |-> "report", idx |-> i + 1]

(* the `continue` that ends the count step's except handler *)
AfterCountFailure(i, n) == LoopAt(i + 1, n)

(* the threshold test as the printed message words it (row count >= 50,000) *)
SkipLarge_atThreshold(c) == c >= Threshold

(* if ora_c > 50000: skip the chunk checksum *)
SkipLarge(c) == c > Threshold

Stmt(i, what) == [table |-> i, stmt |-> what]
Line(i, what) == [table |-> i, msg |-> what]

MissingRecord(t, pgs, e) ==
    [ORA_SCHEMA |-> t.ora_schema, ORA_TABLE |-> t.ora_table,
     PG_SCHEMA |-> pgs, PG_TABLE |-> t.pg_table, ERROR |-> e]

(* try: ora_c = ora_count(...); pg_c = pg_count(...).  old is the value
   ora_c had: a failed ora_count leaves it, a returned one assigns it even
   when pg_count then raises. *)
CountTry(st, old, oraFault, oraVal, pgFault, pgVal) ==
    IF oraFault # "none"
    THEN [ok |-> FALSE, err |-> "ora count failed", state |-> st,
          sent |-> <<"ora_count">>, ora_c |-> old, pg_c |-> 0]
    ELSE LET r == pg_query_df(st, pgFault)
         IN [ok |-> r.ok, err |-> r.err, state |-> r.state,
             sent |-> <<"ora_count">> \o PgSent(st, "pg_count"),
             ora_c |-> oraVal, pg_c |-> IF r.ok THEN pgVal ELSE 0]

CountStep ==
    /\ pc = "count"
    /\ \E oraFault \in OraFaults, oraVal \in CountVals,
          pgFault \in PgFaults, pgVal \in CountVals, rbFault \in RollbackFaults :
         LET t == tables[idx]
             c == CountTry(pgState, ora_c, oraFault, oraVal, pgFault, pgVal)
             rb == pg_rollback(c.state, rbFault)
             nx == AfterCountFailure(idx, Len(tables))
         IN IF c.ok
            THEN /\ counts_rows' = counts_rows \o
                        << <<"ORA", t.ora_schema, t.ora_table, c.ora_c>>,
                           <<"PG", pg_schema, t.pg_table, c.pg_c>> >>
                 /\ ora_c' = c.ora_c
                 /\ pgState' = c.state
                 /\ stmts' = stmts \o [n \in 1..Len(c.sent) |-> Stmt(idx, c.sent[n])]
                 /\ pc' = "checksum"
                 /\ UNCHANGED <<idx, missing_tables, log>>
            ELSE /\ missing_tables' = Append(missing_tables, MissingRecord(t, pg_schema, c.err))
                 /\ pgState' = rb.state
                 /\ stmts' = stmts \o [n \in 1..Len(c.sent) |-> Stmt(idx, c.sent[n])]
                                   \o <<Stmt(idx, "pg_rollback")>>
                 /\ log' = log \o <<Line(idx, "count_failed")>>
                               \o (IF rb.ok THEN <<>> ELSE <<Line(idx, "rollback_failed")>>)
                 /\ ora_c' = c.ora_c
                 /\ pc' = nx.pc
                 /\ idx' = nx.idx
                 /\ UNCHANGED counts_rows
    /\ UNCHANGED <<tables, pg_schema, chunks_rows, mismatches, files, fnIn, fnOut>>

(* cat_expr = ora_build_cat_expr(...); ora_chunks = ora_chunk_sums(...);
   pg_chunks = pg_chunk_sums(...): what each call returned or that it raised.
   pg_chunk_sums sends two statements: the column list, then the checksum. *)
ChecksumTry(t, pgs, st, catRes, oraFault, colsFault, sumFault, data) ==
    LET cols == pg_query_df(st, colsFault)
        sums == pg_query_df(cols.state, sumFault)
    IN IF catRes # "ok"
       THEN [ok |-> FALSE, state |-> st, sent |-> <<"ora_cat">>,
             ora_chunks |-> <<>>, pg_chunks |-> <<>>]
       ELSE IF oraFault # "none"
       THEN [ok |-> FALSE, state |-> st, sent |-> <<"ora_cat", "ora_chunks">>,
             ora_chunks |-> <<>>, pg_chunks |-> <<>>]
       ELSE IF ~cols.ok
       THEN [ok |-> FALSE, state |-> cols.state,
             sent |-> <<"ora_cat", "ora_chunks">> \o PgSent(st, "pg_cols"),
             ora_chunks |-> ora_chunk_sums(t.ora_schema, t.ora_table, t.chunks, data.ora),
             pg_chunks |-> <<>>]
       ELSE [ok |-> sums.ok, state |-> sums.state,
             sent |-> <<"ora_cat", "ora_chunks", "pg_cols", "pg_chunks">>,
             ora_chunks |-> ora_chunk_sums(t.ora_schema, t.ora_table, t.chunks, data.ora),
             pg_chunks |-> IF sums.ok
                           THEN pg_chunk_sums(pgs, t.pg_table, t.chunks, data.pg)
                           ELSE <<>>]

(* each side's chunk rows appended as soon as that side's query returned *)
ExtendChunks_partial(rows, r) ==
    rows \o ToTuples(r.ora_chunks) \o ToTuples(r.pg_chunks)

(* chunks_rows.extend(ora_chunks...); chunks_rows.extend(pg_chunks...):
   reached only when both checksum calls returned *)
ExtendChunks(rows, r) ==
    IF r.ok THEN rows \o ToTuples(r.ora_chunks) \o ToTuples(r.pg_chunks)
    ELSE rows

ChecksumStep ==
    /\ pc = "checksum"
    /\ LET nx == LoopAt(idx + 1, Len(tables))
       IN /\ pc' = nx.pc
          /\ idx' = nx.idx
    /\ IF SkipLarge(ora_c)
       THEN /\ log' = Append(log, Line(idx, "skipped"))
            /\ UNCHANGED <<chunks_rows, mismatches, pgState, stmts>>
       ELSE \E f \in ChecksumFaults, data \in TableData :
              LET r == ChecksumTry(tables[idx], pg_schema, pgState, f[1], f[2], f[3],
                                   f[4], data)
                  diff == compare_chunks(r.ora_chunks, r.pg_chunks)
              IN /\ pgState' = r.state
                 /\ stmts' = stmts \o [n \in 1..Len(r.sent) |-> Stmt(idx, r.sent[n])]
                 /\ chunks_rows' = ExtendChunks(chunks_rows, r)
                 /\ mismatches' = IF r.ok /\ diff # <<>> THEN Append(mismatches, diff)
                                  ELSE mismatches
                 /\ log' = Append(log, Line(idx,
                              IF ~r.ok THEN "checksum_failed"
                              ELSE IF diff # <<>> THEN "mismatches" ELSE "match"))
    /\ UNCHANGED <<tables, pg_schema, ora_c, counts_rows, missing_tables, files,
                   fnIn, fnOut>>

(* recon_run.main: the reports.  Straight-line code with no input: the four
   saves are one step. *)

WriteFile(fs, name, rows) ==
    [f \in DOMAIN fs \cup {name} |-> IF f = name THEN rows ELSE fs[f]]

(* counts_df.to_csv(recon_summary.csv) *)
SaveCounts(fs) == WriteFile(fs, "recon_summary.csv", counts_rows)

(* if chunks_rows: chunks_df.to_csv(recon_chunks.csv); else: no file *)
SaveChunks(fs) ==
    IF chunks_rows # <<>> THEN WriteFile(fs, "recon_chunks.csv", chunks_rows) ELSE fs

(* mism_df = pd.concat(mismatches) or an empty frame; to_csv *)
SaveMismatches(fs) == WriteFile(fs, "mismatched_chunks.csv", Flatten(mismatches))

(* missing_df.to_csv(missing_tables.csv) *)
SaveMissing(fs) == WriteFile(fs, "missing_tables.csv", missing_tables)

WriteReports ==
    /\ pc = "report"
    /\ files' = SaveMissing(SaveMismatches(SaveChunks(SaveCounts(files))))
    /\ pc' = "done"
    /\ UNCHANGED <<tables, pg_schema, idx, ora_c, counts_rows, chunks_rows, mismatches,
                   missing_tables, pgState, log, stmts, fnIn, fnOut>>

(* tables = fetch_oracle_tables(ora, ...): outside any try, so a catalog
   query that raises ends main with the exception, before the loop and
   without any report. *)
FetchTables ==
    /\ pc = "fetch"
    /\ \E oraFault \in OraFaults, keyCols \in KeyColumnLists :
          IF oraFault # "none"
          THEN /\ pc' = "crashed"
               /\ UNCHANGED tables
          ELSE /\ tables' = fetch_oracle_tables(Catalog(OraSchemaCfg, keyCols),
                                                DefaultChunks)
               /\ pc' = LoopAt(1, SumOver(DOMAIN keyCols, keyCols)).pc
    /\ UNCHANGED <<pg_schema, idx, ora_c, counts_rows, chunks_rows, mismatches,
                   missing_tables, pgState, files, log, stmts, fnIn, fnOut>>

Init ==
    \E pgs \in PgSchemas :
        /\ tables = <<>>
        /\ pg_schema = pgs
        /\ pc = "fetch"
        /\ idx = 1
        /\ ora_c = 0
        /\ counts_rows = <<>>
        /\ chunks_rows = <<>>
        /\ mismatches = <<>>
        /\ missing_tables = <<>>
        /\ pgState = "idle"
        /\ files = <<>>
        /\ log = <<>>
        /\ stmts = <<>>
        /\ fnIn = <<>>
        /\ fnOut = <<>>

Next == FetchTables \/ CountStep \/ ChecksumStep \/ WriteReports

Spec == Init /\ [][Next]_vars

(* main is a sequential program: it takes its next step whenever it has one *)
FairSpec == Spec /\ WF_vars(Next)

-----------------------------------------------------------------------------
(* compare_chunks on its own: two chunk-result frames of one table, each   *)
(* with any subset of the chunk ids, any sums and any row counts.          *)

SideFrames(side) ==
    UNION {
      {[n \in 1..Len(SortedSeq(ids)) |->
            ChunkRow(side, <<"s">>, <<"t">>, SortedSeq(ids)[n], sm[SortedSeq(ids)[n]],
                     ct[SortedSeq(ids)[n]])] :
         sm \in [ids -> 0..MaxSum], ct \in [ids -> 1..MaxCnt]} :
      ids \in SUBSET (1..CmpChunks)}

CmpInit ==
    /\ fnIn \in [ora : SideFrames("ORA"), pg : SideFrames("PG")]
    /\ fnOut = <<>>
    /\ pc = "cmp_call"
    /\ tables = <<>> /\ pg_schema = <<>> /\ idx = 1 /\ ora_c = 0
    /\ counts_rows = <<>> /\ chunks_rows = <<>> /\ mismatches = <<>>
    /\ missing_tables = <<>> /\ pgState = "idle" /\ files = <<>>
    /\ log = <<>> /\ stmts = <<>>

Compare ==
    /\ pc = "cmp_call"
    /\ fnOut' = compare_chunks(fnIn.ora, fnIn.pg)
    /\ pc' = "cmp_done"
    /\ UNCHANGED <<orchVars, fnIn>>

CmpNext == Compare

CmpSpec == CmpInit /\ [][CmpNext]_vars

-----------------------------------------------------------------------------
(* Chunk membership on its own: one set of integer primary keys, present   *)
(* on both sides, and one chunk count.                                     *)

NtileInit ==
    /\ fnIn \in [keys : SUBSET (1..MaxKey), chunks : 1..MaxChunks]
    /\ fnOut = <<>>
    /\ pc = "ntile_call"
    /\ tables = <<>> /\ pg_schema = <<>> /\ idx = 1 /\ ora_c = 0
    /\ counts_rows = <<>> /\ chunks_rows = <<>> /\ mismatches = <<>>
    /\ missing_tables = <<>> /\ pgState = "idle" /\ files = <<>>
    /\ log = <<>> /\ stmts = <<>>

AssignChunks ==
    /\ pc = "ntile_call"
    /\ fnOut' = [ora |-> [k \in fnIn.keys |-> OraChunkOf(k, fnIn.keys, fnIn.chunks)],
                 pg |-> [k \in fnIn.keys |-> PgChunkOf(k, fnIn.keys, fnIn.chunks)]]
    /\ pc' = "ntile_done"
    /\ UNCHANGED <<orchVars, fnIn>>

NtileNext == AssignChunks

NtileSpec == NtileInit /\ [][NtileNext]_vars

-----------------------------------------------------------------------------
(* Vocabulary of the properties.  The table list may hold one table more
   than once (a composite key), so what a table's pass contributes is read
   off the step that makes it, not off the table's name. *)

TerminalMsgs == {"count_failed", "skipped", "mismatches", "match", "checksum_failed"}
AllReports == {"recon_summary.csv", "recon_chunks.csv", "mismatched_chunks.csv",
               "missing_tables.csv"}

Logged(i, m) == \E n \in 1..Len(log) : log[n] = Line(i, m)
Sent(i, what) == \E n \in 1..Len(stmts) : stmts[n] = Stmt(i, what)

(* the outcome lines of the log and the count statements, in order *)
Outcomes == Filter(log, [n \in 1..Len(log) |-> log[n].msg \in TerminalMsgs])
CountsSent == Filter(stmts, [n \in 1..Len(stmts) |-> stmts[n].stmt = "ora_count"])
Failures == Filter(log, [n \in 1..Len(log) |->
                            log[n].msg \in {"count_failed", "checksum_failed"}])

IsPrefix(a, b) == Len(a) <= Len(b) /\ SubSeq(b, 1, Len(a)) = a
Added(a, b) == SubSeq(b, Len(a) + 1, Len(b))

(* the last two count rows are those of the table the loop is at *)
CountRowsOfCurrent ==
    /\ Len(counts_rows) >= 2
    /\ counts_rows[Len(counts_rows) - 1] =
          <<"ORA", tables[idx].ora_schema, tables[idx].ora_table, ora_c>>
    /\ counts_rows[Len(counts_rows)][1] = "PG"
    /\ counts_rows[Len(counts_rows)][2] = pg_schema
    /\ counts_rows[Len(counts_rows)][3] = tables[idx].pg_table

-----------------------------------------------------------------------------
(* C1: fault isolation.  Whatever fails, the loop attempts every entry of
   the table list exactly once and in list order, every attempted entry ends
   in exactly one outcome (done with or without mismatches, skipped as large,
   or failed), the report-writing step is entered only after the last entry,
   and a run that has its table list always gets there and finishes. *)
C1_Visited ==
    LET attempted == IF pc = "count" THEN idx - 1
                     ELSE IF pc = "checksum" THEN idx
                     ELSE Len(tables)
        finished == IF pc \in {"count", "checksum"} THEN idx - 1 ELSE Len(tables)
    IN /\ CountsSent = [n \in 1..attempted |-> Stmt(n, "ora_count")]
       /\ Len(Outcomes) = finished
       /\ \A n \in 1..Len(Outcomes) : Outcomes[n].table = n

C1_FaultIsolation ==
    []C1_Visited /\ ((pc \in {"count", "checksum", "report"}) ~> (pc = "done"))

(* a run of two entries or more that is over, whose first entry failed in
   the count step and whose second entry went through to the comparison *)
C1_Witness ==
    /\ pc = "done"
    /\ Len(tables) >= 2
    /\ Logged(1, "count_failed")
    /\ Logged(2, "match")

(* C2: target transaction reset.  At the start of every table's count step
   the target connection is not in an aborted transaction: every failed
   target statement of the previous table was rolled back. *)
C2_TargetResetBeforeCount == pc = "count" => pgState # "aborted"

(* C3: failure records.  When the run ends, every pass over a table that
   ended in failure, in the count step or in the checksum step, has exactly
   one record in missing_tables: the records are the failed passes, in
   order. *)
C3_FailureRecorded ==
    pc = "done" =>
        /\ Len(missing_tables) = Len(Failures)
        /\ \A n \in 1..Len(Failures) :
              missing_tables[n].ORA_TABLE = tables[Failures[n].table].ora_table

(* C4: comparator, one-sided chunks.  Every chunk id present on exactly one
   side has a record in the result of compare_chunks. *)
C4_OneSidedReported ==
    pc = "cmp_done" =>
        LET oraIds == {r.CHUNK_ID : r \in Range(fnIn.ora)}
            pgIds == {r.CHUNK_ID : r \in Range(fnIn.pg)}
        IN \A id \in (oraIds \ pgIds) \cup (pgIds \ oraIds) :
              \E m \in Range(fnOut) : m.CHUNK_ID = id

(* C5: comparator, row counts.  A chunk id present on both sides has no
   record in the result of compare_chunks exactly when both its CHUNK_SUM and
   its ROWS_IN_CHUNK are equal on the two sides. *)
C5_RowCountCompared ==
    pc = "cmp_done" =>
        \A o \in Range(fnIn.ora), p \in Range(fnIn.pg) :
            o.CHUNK_ID = p.CHUNK_ID =>
                ((~ \E m \in Range(fnOut) : m.CHUNK_ID = o.CHUNK_ID)
                 <=> (o.CHUNK_SUM = p.CHUNK_SUM /\ o.ROWS_IN_CHUNK = p.ROWS_IN_CHUNK))

(* C6: sensitivity, end to end.  When the chunk rows the two checksum
   queries produced in a table's checksum step agree on every chunk except
   that chunk k has a different CHUNK_SUM on the two sides, that step
   records exactly chunk k as a mismatch and prints the mismatch line, not
   MATCH. *)
DiffersOnlyAt(ora, pg, k) ==
    /\ {r[4] : r \in ora} = {r[4] : r \in pg}
    /\ \E o \in ora, p \in pg : o[4] = k /\ p[4] = k /\ o[5] # p[5]
    /\ \A o \in ora, p \in pg :
          o[4] = p[4] => /\ o[6] = p[6]
                         /\ (o[4] # k => o[5] = p[5])

C6_Step ==
    pc = "checksum" =>
        LET new == Range(Added(chunks_rows, chunks_rows'))
            ora == {r \in new : r[1] = "ORA"}
            pg == {r \in new : r[1] = "PG"}
        IN \A k \in 1..tables[idx].chunks :
              DiffersOnlyAt(ora, pg, k) =>
                  /\ Len(mismatches') = Len(mismatches) + 1
                  /\ {m.CHUNK_ID : m \in Range(mismatches'[Len(mismatches')])} = {k}
                  /\ log' = Append(log, Line(idx, "mismatches"))

C6_Sensitivity == [][C6_Step]_vars

(* C7: size-threshold skip.  A successful count step adds the table's two
   count rows.  The checksum step that follows asks for the canonical
   expression (the table is checksummed) when the source row count is at or
   below the threshold, and skips when the count exceeds it; a skip adds
   nothing to the count rows, chunk rows, mismatch records and failure
   records and sends no statement. *)
C7_Step ==
    /\ (pc = "count" /\ pc' = "checksum") =>
          /\ Len(counts_rows') = Len(counts_rows) + 2
          /\ IsPrefix(counts_rows, counts_rows')
          /\ CountRowsOfCurrent'
    /\ pc = "checksum" =>
          /\ CountRowsOfCurrent
          /\ ora_c <= Threshold =>
                /\ Len(stmts') > Len(stmts)
                /\ stmts'[Len(stmts) + 1] = Stmt(idx, "ora_cat")
                /\ log'[Len(log')] # Line(idx, "skipped")
          /\ ora_c > Threshold =>
                /\ log' = Append(log, Line(idx, "skipped"))
                /\ UNCHANGED <<counts_rows, chunks_rows, mismatches, missing_tables,
                               stmts>>

C7_ThresholdSkip == [][C7_Step]_vars

(* a finished run with one pass skipped as large and another, whose source
   count is exactly the threshold, checksummed *)
C7_Witness ==
    /\ pc = "done"
    /\ \E i, j \in 1..Len(tables) :
          /\ Logged(i, "skipped")
          /\ Sent(j, "ora_chunks")
          /\ \E n \in 1..Len(counts_rows) :
                /\ counts_rows[n] = <<"ORA", tables[j].ora_schema, tables[j].ora_table,
                                     Threshold>>
                /\ tables[j].ora_table # tables[i].ora_table

(* C8: counts survive a checksum failure.  Count rows are never taken back,
   and a checksum step that fails, at canonicalization or at either side's
   checksum query, has the table's source and target count rows in place and
   adds no chunk rows of either side and no mismatch records. *)
C8_Step ==
    /\ IsPrefix(counts_rows, counts_rows')
    /\ (pc = "checksum" /\ log' = Append(log, Line(idx, "checksum_failed"))) =>
          /\ CountRowsOfCurrent
          /\ chunks_rows' = chunks_rows
          /\ mismatches' = mismatches

C8_CountsSurvive == [][C8_Step]_vars

(* a pass whose source checksum returned and whose target checksum failed,
   after another pass contributed chunk rows *)
C8_Witness ==
    \E i \in 1..Len(tables) :
        /\ Logged(i, "checksum_failed")
        /\ Sent(i, "pg_chunks")
        /\ chunks_rows # <<>>

(* C9: full artifact set.  A run that is over has written all four reports:
   counts, chunks, mismatches and failures. *)
C9_AllReportsWritten == pc = "done" => DOMAIN files = AllReports

(* C10: chunk membership agrees across sides.  For one set of integer
   primary keys and one chunk count, the source query and the target query
   give every key the same chunk id. *)
C10_SameMembership == pc = "ntile_done" => fnOut.ora = fnOut.pg

====
